---- MODULE Spec2Model ----
(***************************************************************************)
(* A model of the two example algorithms of the GrantedPatentsData data   *)
(* source:                                                                 *)
(*   Demonstration.py          GrantedPatentsDataAlgorithm                 *)
(*   DemonstrationUniverse.py  GrantedPatentsDataUniverseAlgorithm         *)
(* The host engine (portfolio, order handling, universe bookkeeping) is    *)
(* the environment of both algorithms; the callbacks are the actions.      *)
(*                                                                         *)
(* Fractions (TechDiversity, target weights) are pairs <<num, den>> with   *)
(* den > 0, compared by cross multiplication.  1.0 / N is the fraction     *)
(* <<1, N>>; the rounding of a float division is not modelled.             *)
(***************************************************************************)
EXTENDS Integers, Sequences, FiniteSets, TLC

VARIABLES
    Holdings,     \* Portfolio: security symbol -> quantity held (engine state)
    openOrders,   \* number of orders of the single-security algorithm still open
    call,         \* the callback that ran last, with its arguments and the state it read
    issued,       \* SetHoldings commands issued by the last callback: <<Symbol, weight>>
    logged,       \* Debug/Log lines written by the last callback
    raised,       \* TRUE iff the last callback ended in an exception
    data,         \* the candidate batch handed to UniverseSelection
    selected,     \* the list UniverseSelection returned
    pc,           \* position of the selection run: "start", "done" ("idle": not run)
    universe,     \* the securities in the universe (engine state)
    target,       \* security symbol -> last target weight set, or NoWeight
    changes       \* the SecurityChanges waiting to be notified, or NoChanges

sigVars == <<Holdings, openOrders>>
selVars == <<data, selected, pc>>
uniVars == <<universe, target, changes>>
outVars == <<call, issued, logged, raised>>
vars == <<Holdings, openOrders, call, issued, logged, raised,
          data, selected, pc, universe, target, changes>>

----------------------------------------------------------------------------
(* Bounds of the model *)

\* largest PatentsFiled / CumulativePatents of a delivered record
MaxFiled == 1
\* largest quantity the portfolio holds, and largest fill quantity
MaxQty == 2
\* orders open at once
MaxOpen == 2
\* longest candidate batch
MaxBatch == 3

----------------------------------------------------------------------------
(* Fractions *)

\* a > b for fractions with positive denominators
GT(a, b) == a[1] * b[2] > b[1] * a[2]

\* the 0.5 of "TechDiversity > 0.5" and of the reduced weight
Half == <<1, 2>>
\* the weight 1.0
One == <<1, 1>>

\* TechDiversity scores: 0, 0.25, 0.5, 0.75, 1
DiversityValues == {<<0, 1>>, <<1, 4>>, <<1, 2>>, <<3, 4>>, <<1, 1>>}

----------------------------------------------------------------------------
(* Single-security algorithm: Demonstration.py *)

equity_symbol == "AAPL"
patent_data_symbol == "AAPL.GrantedPatentsData"

\* Portfolio.Invested: some security of the portfolio is held
PortfolioInvested(h) == \E s \in DOMAIN h : h[s] # 0

\* Portfolio[symbol].Invested
SecurityInvested(h, s) == h[s] # 0

PatentRecords ==
    [PatentsFiled : 0..MaxFiled,
     TechDiversity : DiversityValues,
     CumulativePatents : 0..MaxFiled]

\* slice.Get(GrantedPatentsData): a dictionary keyed by data symbol; the only
\* subscription of that type is patent_data_symbol, so it is empty or holds
\* that one key.
EmptySlice == <<>>
SliceOf(rec) == [s \in {patent_data_symbol} |-> rec]
Slices == {EmptySlice} \cup {SliceOf(r) : r \in PatentRecords}

\* "if data:" -- a dictionary is truthy iff it is not empty
Truthy(d) == DOMAIN d # {}

\* SignalWeight with ">=" for ">": a score of exactly 0.5 gets the full weight
SignalWeightInclusive(rec) ==
    IF ~GT(Half, rec.TechDiversity) THEN One ELSE Half

\* weight = 1.0 if patent_data.TechDiversity > 0.5 else 0.5
SignalWeight(rec) == IF GT(rec.TechDiversity, Half) THEN One ELSE Half

\* nothing issued, nothing logged
NoEffect == [cmds |-> <<>>, logs |-> <<>>, err |-> FALSE]
\* data[self.patent_data_symbol] on a dictionary without that key
KeyError == [cmds |-> <<>>, logs |-> <<>>, err |-> TRUE]
\* self.SetHoldings(self.equity_symbol, weight); self.Debug("Bought ...")
BuyEffect(rec, w) ==
    [cmds |-> << <<equity_symbol, w>> >>,
     logs |-> << <<"Bought", equity_symbol, rec.PatentsFiled, rec.TechDiversity>> >>,
     err  |-> FALSE]

\* OnData whose "keep position" branch rebalances to the weight instead of passing
OnDataEffectsRebalancing(slice, h) ==
    IF ~Truthy(slice) THEN NoEffect
    ELSE LET patent_data == slice[patent_data_symbol] IN
         IF patent_data.PatentsFiled > 0
         THEN IF ~PortfolioInvested(h)
              THEN BuyEffect(patent_data, SignalWeight(patent_data))
              ELSE NoEffect
         ELSE IF patent_data.CumulativePatents > 0
                 /\ SecurityInvested(h, equity_symbol)
         THEN [cmds |-> << <<equity_symbol, SignalWeight(patent_data)>> >>,
               logs |-> <<>>, err |-> FALSE]
         ELSE NoEffect

\* OnData without the "if data:" test: the lookup runs on an empty dictionary
OnDataEffectsUnguarded(slice, h) ==
    IF patent_data_symbol \notin DOMAIN slice THEN KeyError
    ELSE LET patent_data == slice[patent_data_symbol] IN
         IF patent_data.PatentsFiled > 0 /\ ~PortfolioInvested(h)
         THEN BuyEffect(patent_data, SignalWeight(patent_data))
         ELSE NoEffect

\* OnData without the "if not self.Portfolio.Invested:" test
OnDataEffectsAlwaysBuying(slice, h) ==
    IF ~Truthy(slice) THEN NoEffect
    ELSE LET patent_data == slice[patent_data_symbol] IN
         IF patent_data.PatentsFiled > 0
         THEN BuyEffect(patent_data, SignalWeight(patent_data))
         ELSE NoEffect

\* The body of OnData, as the effects it has: the SetHoldings commands, the
\* Debug lines and whether the lookup data[self.patent_data_symbol] raised.
OnDataEffects(slice, h) ==
    IF ~Truthy(slice) THEN NoEffect
    ELSE IF patent_data_symbol \notin DOMAIN slice THEN KeyError
    ELSE LET patent_data == slice[patent_data_symbol] IN
         IF patent_data.PatentsFiled > 0
         THEN IF ~PortfolioInvested(h)
              THEN BuyEffect(patent_data, SignalWeight(patent_data))
              ELSE NoEffect
         ELSE IF patent_data.CumulativePatents > 0
                 /\ SecurityInvested(h, equity_symbol)
         THEN NoEffect   \* pass
         ELSE NoEffect

\* OnData(slice): every SetHoldings opens one order with the engine.  The
\* engine delivers a slice only while it has room for the order (the cap).
OnData ==
    \E slice \in Slices :
        LET eff == OnDataEffects(slice, Holdings) IN
        /\ openOrders + Len(eff.cmds) <= MaxOpen
        /\ call' = [op |-> "OnData", slice |-> slice, pre |-> Holdings]
        /\ issued' = eff.cmds
        /\ logged' = eff.logs
        /\ raised' = eff.err
        /\ openOrders' = openOrders + Len(eff.cmds)
        /\ UNCHANGED <<Holdings, selVars, uniVars>>

\* The order events the engine can deliver for an open order of the equity
OrderEvents ==
    {[Symbol |-> equity_symbol, Status |-> st, FillQuantity |-> q] :
        st \in {"PartiallyFilled", "Filled"}, q \in 1..MaxQty}
    \cup
    {[Symbol |-> equity_symbol, Status |-> st, FillQuantity |-> 0] :
        st \in {"Submitted", "Canceled", "Invalid"}}

\* OnOrderEvent that logs partial fills as well
OnOrderEventLogsAnyFill(orderEvent) ==
    IF orderEvent.Status \in {"Filled", "PartiallyFilled"}
    THEN << <<"Order Filled", orderEvent.Symbol, orderEvent.FillQuantity>> >>
    ELSE <<>>

\* The body of OnOrderEvent, as the Debug lines it writes
OnOrderEventLogs(orderEvent) ==
    IF orderEvent.Status = "Filled"
    THEN << <<"Order Filled", orderEvent.Symbol, orderEvent.FillQuantity>> >>
    ELSE <<>>

\* OnOrderEvent(orderEvent): the engine has applied the event to the portfolio
\* (a fill adds its quantity, a final status closes the order) and calls the
\* handler.
OnOrderEvent ==
    \E orderEvent \in OrderEvents :
        /\ openOrders > 0
        /\ Holdings[orderEvent.Symbol] + orderEvent.FillQuantity <= MaxQty
        /\ call' = [op |-> "OnOrderEvent", orderEvent |-> orderEvent, pre |-> Holdings]
        /\ Holdings' = [Holdings EXCEPT ![orderEvent.Symbol] = @ + orderEvent.FillQuantity]
        /\ openOrders' = IF orderEvent.Status \in {"Filled", "Canceled", "Invalid"}
                         THEN openOrders - 1 ELSE openOrders
        /\ issued' = <<>>
        /\ logged' = OnOrderEventLogs(orderEvent)
        /\ raised' = FALSE
        /\ UNCHANGED <<selVars, uniVars>>

NoCall == [op |-> "Initialize"]

\* the state of the parts a specification does not run
SelIdle == data = <<>> /\ selected = <<>> /\ pc = "idle"
UniIdle == universe = {} /\ target = <<>> /\ changes = <<>>
SigIdle == Holdings = <<>> /\ openOrders = 0

\* Initialize: AddEquity and AddData; nothing is held, no order is open
Init ==
    /\ Holdings = [s \in {equity_symbol, patent_data_symbol} |-> 0]
    /\ openOrders = 0
    /\ call = NoCall
    /\ issued = <<>>
    /\ logged = <<>>
    /\ raised = FALSE
    /\ SelIdle
    /\ UniIdle

Next == OnData \/ OnOrderEvent

Spec == Init /\ [][Next]_vars

----------------------------------------------------------------------------
(* Universe algorithm: DemonstrationUniverse.py, UniverseSelection *)

\* the candidate securities of a batch
Candidates == {"A", "B", "C", "D"}

\* the 10 of "CumulativePatents > 10"
MinCumulative == 10

\* TechDiversity scores of the candidates: 0.5, 0.75, 1
CandidateDiversity == {<<1, 2>>, <<3, 4>>, <<1, 1>>}

\* One GrantedPatentsDataUniverse datum.  PatentsFiled is only printed by
\* UniverseSelection and is left out of the record.
UniverseRecords ==
    [Symbol : Candidates,
     Patents90d : {0, 1},
     TechDiversity : CandidateDiversity,
     CumulativePatents : {MinCumulative, MinCumulative + 1}]

\* the candidate batches: at most MaxBatch records, one per security
Batches ==
    UNION {{b \in [1..n -> UniverseRecords] :
               \A i, j \in 1..n : i # j => b[i].Symbol # b[j].Symbol} :
           n \in 0..MaxBatch}

\* the selection test with ">=" for ">" on CumulativePatents
PassesInclusive(d) ==
    /\ d.Patents90d > 0
    /\ GT(d.TechDiversity, Half)
    /\ d.CumulativePatents >= MinCumulative

\* the test of the list comprehension
Passes(d) ==
    /\ d.Patents90d > 0
    /\ GT(d.TechDiversity, Half)
    /\ d.CumulativePatents > MinCumulative

Reverse(s) == [i \in 1..Len(s) |-> s[Len(s) + 1 - i]]

\* x put into the ascending list s behind every element whose key is not greater
RECURSIVE InsertByDiversity(_, _)
InsertByDiversity(x, s) ==
    IF s = <<>> THEN <<x>>
    ELSE IF GT(Head(s).TechDiversity, x.TechDiversity)
    THEN <<x>> \o s
    ELSE <<Head(s)>> \o InsertByDiversity(x, Tail(s))

\* list.sort(key=...) without reverse: stable, ascending
RECURSIVE SortAscending(_)
SortAscending(s) ==
    IF s = <<>> THEN <<>>
    ELSE InsertByDiversity(s[Len(s)], SortAscending(SubSeq(s, 1, Len(s) - 1)))

\* a descending sort done as "sort ascending, then reverse": equal keys swap
SortByDiversityReversing(s) == Reverse(SortAscending(s))

\* selected.sort(key=lambda x: x.TechDiversity, reverse=True): the list is
\* reversed, sorted stably ascending and reversed again, which keeps equal
\* keys in their original order.
SortByDiversity(s) == Reverse(SortAscending(Reverse(s)))

\* UniverseSelection(data): the returned list of symbols
UniverseSelection(d) ==
    LET sel == SelectSeq(d, Passes)
        sorted == SortByDiversity(sel)
    IN [i \in 1..Len(sorted) |-> sorted[i].Symbol]

\* the Log line of each datum, in batch order
SelectionLogs(d) ==
    [i \in 1..Len(d) |-> <<d[i].Symbol, d[i].TechDiversity, d[i].Patents90d>>]

\* the engine hands the batch to UniverseSelection and takes the list back
Select ==
    /\ pc = "start"
    /\ selected' = UniverseSelection(data)
    /\ logged' = SelectionLogs(data)
    /\ call' = [op |-> "UniverseSelection"]
    /\ pc' = "done"
    /\ UNCHANGED <<data, issued, raised, sigVars, uniVars>>

\* any candidate batch, before the selection ran
InitSelection ==
    /\ data \in Batches
    /\ selected = <<>>
    /\ pc = "start"
    /\ call = NoCall
    /\ issued = <<>>
    /\ logged = <<>>
    /\ raised = FALSE
    /\ SigIdle
    /\ UniIdle

NextSelection == Select

SpecSelection == InitSelection /\ [][NextSelection]_vars

----------------------------------------------------------------------------
(* Properties of UniverseSelection, checked under SpecSelection *)

Range(s) == {s[i] : i \in 1..Len(s)}

\* the record of the batch that carries symbol sym
DatumOf(sym) == CHOOSE d \in Range(data) : d.Symbol = sym
\* the place of symbol sym in the batch
PlaceOf(sym) == CHOOSE i \in 1..Len(data) : data[i].Symbol = sym

\* C2: the symbols returned are exactly the symbols of the records with
\* Patents90d > 0, TechDiversity > 0.5 and CumulativePatents > 10; none is
\* returned twice.
SelectsExactlyPassing ==
    pc = "done"
    => /\ Range(selected) =
            {d.Symbol : d \in {e \in Range(data) :
                                  /\ e.Patents90d > 0
                                  /\ e.TechDiversity[1] * 2 > e.TechDiversity[2]
                                  /\ e.CumulativePatents > 10}}
       /\ \A i, j \in 1..Len(selected) : i # j => selected[i] # selected[j]

\* a batch of a passing record between two records that each fail one test
\* at its boundary: TechDiversity = 0.5, CumulativePatents = 10
SelectsExactlyPassingWitness ==
    /\ pc = "done"
    /\ Len(data) = 3
    /\ data[1].Patents90d = 1 /\ data[1].TechDiversity = Half
                              /\ data[1].CumulativePatents = 11
    /\ data[2].Patents90d = 1 /\ data[2].TechDiversity = One
                              /\ data[2].CumulativePatents = 11
    /\ data[3].Patents90d = 1 /\ data[3].TechDiversity = One
                              /\ data[3].CumulativePatents = 10
    /\ selected = <<data[2].Symbol>>

\* C3: the returned list is in descending TechDiversity order, and two
\* returned securities of equal TechDiversity keep their batch order.
SortedStable ==
    pc = "done"
    => \A i, j \in 1..Len(selected) :
          i < j =>
             /\ ~GT(DatumOf(selected[j]).TechDiversity,
                    DatumOf(selected[i]).TechDiversity)
             /\ (DatumOf(selected[i]).TechDiversity =
                 DatumOf(selected[j]).TechDiversity
                 => PlaceOf(selected[i]) < PlaceOf(selected[j]))

\* three selected records, the first and last of the batch tied below the middle one
SortedStableWitness ==
    /\ pc = "done"
    /\ Len(data) = 3
    /\ Len(selected) = 3
    /\ data[1].TechDiversity = <<3, 4>>
    /\ data[2].TechDiversity = One
    /\ data[3].TechDiversity = <<3, 4>>
    /\ selected = <<data[2].Symbol, data[1].Symbol, data[3].Symbol>>

----------------------------------------------------------------------------
(* Universe algorithm: DemonstrationUniverse.py, OnSecuritiesChanged *)

\* the securities the universe is drawn from: three of the candidates
Symbols == {"A", "B", "C"}

NoWeight == <<>>
NoChanges == <<>>

\* the orderings of a set of symbols
Orderings(S) ==
    {q \in [1..Cardinality(S) -> S] : \A i, j \in 1..Cardinality(S) : i # j => q[i] # q[j]}

\* weight = 1.0 / len(changes.AddedSecurities), with the divisor of the
\* added and the removed securities together
EqualWeightOfAllChanged(ch) == <<1, Len(ch.AddedSecurities) + Len(ch.RemovedSecurities)>>

\* weight = 1.0 / len(changes.AddedSecurities)
EqualWeight(ch) == <<1, Len(ch.AddedSecurities)>>

\* OnSecuritiesChanged that also sets the removed securities to weight 0
OnSecuritiesChangedCommandsLiquidating(ch) ==
    (IF Len(ch.AddedSecurities) > 0
     THEN [i \in 1..Len(ch.AddedSecurities) |-> <<ch.AddedSecurities[i], EqualWeight(ch)>>]
     ELSE <<>>)
    \o [i \in 1..Len(ch.RemovedSecurities) |-> <<ch.RemovedSecurities[i], <<0, 1>>>>]

\* The SetHoldings commands of OnSecuritiesChanged, in the order of the loop
OnSecuritiesChangedCommands(ch) ==
    IF Len(ch.AddedSecurities) > 0
    THEN [i \in 1..Len(ch.AddedSecurities) |-> <<ch.AddedSecurities[i], EqualWeight(ch)>>]
    ELSE <<>>

\* the Log line of OnSecuritiesChanged
OnSecuritiesChangedLogs(ch) ==
    << <<"Universe changed", Len(ch.AddedSecurities), Len(ch.RemovedSecurities)>> >>

\* SetHoldings(symbol, weight), command by command: the target weight of the
\* symbol becomes the weight, the other targets stay
RECURSIVE ApplyCommands(_, _)
ApplyCommands(t, cmds) ==
    IF cmds = <<>> THEN t
    ELSE ApplyCommands([t EXCEPT ![Head(cmds)[1]] = Head(cmds)[2]], Tail(cmds))

\* The engine applies a selection returned by UniverseSelection (registered by
\* AddUniverse): the universe becomes the selected set, and the difference is
\* queued as SecurityChanges.  Every set of symbols is the selection of some
\* batch.  No notification is queued when nothing changed.
ApplySelection ==
    /\ changes = NoChanges
    /\ \E sel \in SUBSET Symbols :
          /\ sel # universe
          /\ universe' = sel
          /\ \E added \in Orderings(sel \ universe), removed \in Orderings(universe \ sel) :
                changes' = [AddedSecurities |-> added, RemovedSecurities |-> removed]
    /\ UNCHANGED <<target, outVars, sigVars, selVars>>

\* OnSecuritiesChanged(changes)
OnSecuritiesChanged ==
    /\ changes # NoChanges
    /\ call' = [op |-> "OnSecuritiesChanged", changes |-> changes, pre |-> target]
    /\ issued' = OnSecuritiesChangedCommands(changes)
    /\ logged' = OnSecuritiesChangedLogs(changes)
    /\ raised' = FALSE
    /\ target' = ApplyCommands(target, OnSecuritiesChangedCommands(changes))
    /\ changes' = NoChanges
    /\ UNCHANGED <<universe, sigVars, selVars>>

\* Initialize: the universe is registered and empty, no target weight is set
InitUniverse ==
    /\ universe = {}
    /\ target = [s \in Symbols |-> NoWeight]
    /\ changes = NoChanges
    /\ call = NoCall
    /\ issued = <<>>
    /\ logged = <<>>
    /\ raised = FALSE
    /\ SigIdle
    /\ SelIdle

NextUniverse == ApplySelection \/ OnSecuritiesChanged

SpecUniverse == InitUniverse /\ [][NextUniverse]_vars

----------------------------------------------------------------------------
(* Properties of OnSecuritiesChanged, checked under SpecUniverse *)

Notified == call.op = "OnSecuritiesChanged"
Added == Range(call.changes.AddedSecurities)
Removed == Range(call.changes.RemovedSecurities)

\* C4: a notification with N > 0 added securities issues exactly one
\* SetHoldings per added security, each with weight 1/N (N commands of
\* weight 1/N); a notification with N = 0 issues none.
EqualWeightPerAdded ==
    Notified
    => LET N == Len(call.changes.AddedSecurities) IN
       /\ (N > 0 =>
             /\ Len(issued) = N
             /\ \A s \in Added : Cardinality({i \in 1..Len(issued) : issued[i][1] = s}) = 1
             /\ \A i \in 1..Len(issued) : issued[i][2][1] * N = issued[i][2][2])
       /\ (N = 0 => issued = <<>>)

\* two securities added while one is removed: two commands of weight 1/2
EqualWeightPerAddedWitness ==
    /\ Notified
    /\ Len(call.changes.AddedSecurities) = 2
    /\ Len(call.changes.RemovedSecurities) = 1
    /\ Len(issued) = 2
    /\ \A i \in 1..2 : issued[i][2] = <<1, 2>>

\* a notification of removals only
RemovalOnlyWitness ==
    /\ Notified
    /\ Len(call.changes.AddedSecurities) = 0
    /\ Len(call.changes.RemovedSecurities) = 2
    /\ issued = <<>>
    /\ target = call.pre

\* C8: the symbols SetHoldings is called for are exactly the added securities,
\* and the target weight of every other security, removed or retained, is
\* what it was before the notification.
OnlyAddedTargeted ==
    Notified
    => /\ {issued[i][1] : i \in 1..Len(issued)} = Added
       /\ \A s \in Symbols \ Added : target[s] = call.pre[s]

\* a notification adding one security, removing a weighted one and retaining another
OnlyAddedTargetedWitness ==
    /\ Notified
    /\ Len(call.changes.AddedSecurities) = 1
    /\ \E r \in Removed : call.pre[r] # NoWeight /\ target[r] = call.pre[r]
    /\ \E k \in universe \ Added : call.pre[k] # NoWeight /\ target[k] = call.pre[k]

\* C9: once every universe change is notified, all securities of the universe
\* have the same target weight.
UniverseEquallyWeighted ==
    changes = NoChanges => \A s, t \in universe : target[s] = target[t]

----------------------------------------------------------------------------
(* Properties of the single-security algorithm, checked under Spec *)

\* the last callback was OnData and its slice held a patent record
RecordDelivered == call.op = "OnData" /\ Truthy(call.slice)
DeliveredRecord == call.slice[patent_data_symbol]

\* C1: a delivered record with PatentsFiled > 0, while no position is held in
\* the equity, makes OnData issue exactly one SetHoldings for the equity, with
\* weight 1.0 if TechDiversity > 0.5 and weight 0.5 otherwise (0.5 included).
EntryWeight ==
    (RecordDelivered
     /\ DeliveredRecord.PatentsFiled > 0
     /\ call.pre[equity_symbol] = 0)
    => /\ Len(issued) = 1
       /\ issued[1][1] = equity_symbol
       /\ (GT(DeliveredRecord.TechDiversity, Half) => issued[1][2] = One)
       /\ (~GT(DeliveredRecord.TechDiversity, Half) => issued[1][2] = Half)

\* a record with TechDiversity exactly 0.5 bought at weight 0.5
EntryWeightWitness ==
    /\ RecordDelivered
    /\ DeliveredRecord.PatentsFiled > 0
    /\ DeliveredRecord.TechDiversity = Half
    /\ call.pre[equity_symbol] = 0
    /\ issued = << <<equity_symbol, Half>> >>

\* C5: a delivered record with PatentsFiled = 0 and CumulativePatents > 0,
\* while a position in the equity is held, issues no SetHoldings and leaves
\* the holdings as they were.
HoldKeepsPosition ==
    (RecordDelivered
     /\ DeliveredRecord.PatentsFiled = 0
     /\ DeliveredRecord.CumulativePatents > 0
     /\ call.pre[equity_symbol] # 0)
    => (issued = <<>> /\ Holdings = call.pre)

HoldKeepsPositionWitness ==
    /\ RecordDelivered
    /\ DeliveredRecord.PatentsFiled = 0
    /\ DeliveredRecord.CumulativePatents > 0
    /\ call.pre[equity_symbol] # 0
    /\ issued = <<>>

\* C6: a slice without a patent record is a no-op of OnData: no SetHoldings,
\* no log line, no exception, holdings as they were, whatever is held.
AbsentRecordNoOp ==
    (call.op = "OnData" /\ ~Truthy(call.slice))
    => (issued = <<>> /\ logged = <<>> /\ ~raised /\ Holdings = call.pre)

\* an empty slice delivered while a position is held
AbsentRecordNoOpWitness ==
    /\ call.op = "OnData"
    /\ ~Truthy(call.slice)
    /\ call.pre[equity_symbol] # 0
    /\ issued = <<>>
    /\ logged = <<>>

\* C7: OnOrderEvent writes exactly one line, with the event's symbol and fill
\* quantity, for a Filled event, writes nothing for any other status, and
\* issues no SetHoldings in either case.
FillLogged ==
    call.op = "OnOrderEvent"
    => /\ issued = <<>>
       /\ (call.orderEvent.Status = "Filled"
            => /\ Len(logged) = 1
               /\ logged[1][2] = call.orderEvent.Symbol
               /\ logged[1][3] = call.orderEvent.FillQuantity)
       /\ (call.orderEvent.Status # "Filled" => logged = <<>>)

\* a partial fill went unlogged
FillLoggedWitness ==
    /\ call.op = "OnOrderEvent"
    /\ call.orderEvent.Status = "PartiallyFilled"
    /\ call.orderEvent.FillQuantity > 0
    /\ logged = <<>>

====
